---- MODULE Spec2Model ----
(***************************************************************************)
(* The cipher-suite directory: the models of directory/models.py and the   *)
(* pre_save handlers that complete a CipherSuite from its name and an Rfc   *)
(* from its page on tools.ietf.org.                                         *)
(*                                                                         *)
(* A Python str is a sequence of one-character strings, so that the str    *)
(* methods the handlers call (replace, partition, rpartition, strip) and   *)
(* re.search are computed character by character.                          *)
(***************************************************************************)
EXTENDS Integers, Sequences, FiniteSets, Bags, TLC

VARIABLES
    registry,       \* the four Technology tables: table name -> bag of rows
    cipher_suites,  \* the CipherSuite table: bag of rows
    pc,             \* per worker: where its CipherSuite.save() stands
    again,          \* per worker: its run began after a run for the same name returned
    instance,       \* per worker: the CipherSuite instance being saved
    local,          \* per worker: prt, kex, enc, hsh of complete_cs_instance
    ran,            \* the names a run of complete_cs_instance has returned for
    submit,         \* per worker: the names its clients submit (fixed input)
    edits,          \* administrator edits of Technology rows made so far
    rfcs,           \* the Rfc table: bag of rows
    rfc_pc,         \* where the Rfc.save() under way stands
    rfc_instance,   \* the Rfc instance being saved
    response,       \* what requests.get returned to the save under way
    rfcs_before,    \* the Rfc table as it was when the save under way began
    web             \* the responses tools.ietf.org may give (fixed input)

csvars == <<registry, cipher_suites, pc, again, instance, local, ran, submit, edits>>

rfcvars == <<rfcs, rfc_pc, rfc_instance, response, rfcs_before, web>>

vars == <<registry, cipher_suites, pc, again, instance, local, ran, submit, edits,
          rfcs, rfc_pc, rfc_instance, response, rfcs_before, web>>

-----------------------------------------------------------------------------
(* Bounds of the model *)

\* administrator edits of Technology rows in one behaviour
MaxEdits == 1

-----------------------------------------------------------------------------
(* Python str methods *)

\* None, a value no str equals
None == <<"None">>

\* characters str.strip() removes
Whitespace == {" ", "\t"}

\* s[i:i+len(sub)] == sub, 1-based
startswith(s, sub, i) ==
    /\ i >= 1
    /\ i + Len(sub) - 1 <= Len(s)
    /\ SubSeq(s, i, i + Len(sub) - 1) = sub

\* str.find: the lowest index >= i where sub occurs in s, 0 when there is none
RECURSIVE find(_, _, _)
find(s, sub, i) ==
    IF i + Len(sub) - 1 > Len(s) THEN 0
    ELSE IF startswith(s, sub, i) THEN i
    ELSE find(s, sub, i + 1)

\* str.rfind: the highest index <= i where sub occurs in s, 0 when there is none
RECURSIVE rfind(_, _, _)
rfind(s, sub, i) ==
    IF i < 1 THEN 0
    ELSE IF startswith(s, sub, i) THEN i
    ELSE rfind(s, sub, i - 1)

\* partition cutting at the last sep
partition_at_last(s, sep) ==
    LET i == rfind(s, sep, Len(s) - Len(sep) + 1)
    IN  IF i = 0 THEN <<s, <<>>, <<>>>>
        ELSE <<SubSeq(s, 1, i - 1), sep, SubSeq(s, i + Len(sep), Len(s))>>

\* str.partition(sep): (head, sep, tail) at the first sep, (s, "", "") without one
partition(s, sep) ==
    LET i == find(s, sep, 1)
    IN  IF i = 0 THEN <<s, <<>>, <<>>>>
        ELSE <<SubSeq(s, 1, i - 1), sep, SubSeq(s, i + Len(sep), Len(s))>>

\* rpartition cutting at the first sep
rpartition_at_first(s, sep) ==
    LET i == find(s, sep, 1)
    IN  IF i = 0 THEN <<<<>>, <<>>, s>>
        ELSE <<SubSeq(s, 1, i - 1), sep, SubSeq(s, i + Len(sep), Len(s))>>

\* str.rpartition(sep): (head, sep, tail) at the last sep, ("", "", s) without one
rpartition(s, sep) ==
    LET i == rfind(s, sep, Len(s) - Len(sep) + 1)
    IN  IF i = 0 THEN <<<<>>, <<>>, s>>
        ELSE <<SubSeq(s, 1, i - 1), sep, SubSeq(s, i + Len(sep), Len(s))>>

\* str.replace(old, new), old non-empty: every occurrence, left to right
RECURSIVE replace(_, _, _)
replace(s, old, new) ==
    IF s = <<>> THEN <<>>
    ELSE IF startswith(s, old, 1)
         THEN new \o replace(SubSeq(s, Len(old) + 1, Len(s)), old, new)
         ELSE <<Head(s)>> \o replace(Tail(s), old, new)

RECURSIVE lstrip(_)
lstrip(s) ==
    IF s # <<>> /\ Head(s) \in Whitespace THEN lstrip(Tail(s)) ELSE s

RECURSIVE rstrip(_)
rstrip(s) ==
    IF s # <<>> /\ s[Len(s)] \in Whitespace
    THEN rstrip(SubSeq(s, 1, Len(s) - 1)) ELSE s

\* str.strip(): leading and trailing whitespace removed
strip(s) == rstrip(lstrip(s))

\* re.search of a literal pattern
search(pattern, s) == find(s, pattern, 1) # 0

-----------------------------------------------------------------------------
(* models.py: the Technology tables and CipherSuite *)

\* Technology.short_name: max_length
MaxShortName == 20

\* the concrete subclasses of Technology, in the order complete_cs_instance
\* fills them
TechTables == <<"ProtocolVersion", "KexAlgorithm", "EncAlgorithm", "HashAlgorithm">>

\* the foreign keys of CipherSuite, in the same order
Fields == <<"protocol_version", "kex_algorithm", "enc_algorithm", "hash_algorithm">>

\* the locals of complete_cs_instance that key them
Locals == <<"prt", "kex", "enc", "hsh">>

Procs == {1, 2}

\* a Technology row as objects.create(short_name=...) makes it
Technology(short_name) ==
    [short_name |-> short_name, long_name |-> <<>>, vulnerabilities |-> {}]

\* the rows of a table with this primary key
Lookup(table, key) == {r \in BagToSet(table) : r.short_name = key}

\* INSERT into a table without a primary key
InsertErrorNoKey(table, row) ==
    IF Len(row.short_name) > MaxShortName THEN "DataError" ELSE "ok"

\* INSERT of a Technology row: the primary key is unique, and the
\* varchar(20) of short_name takes no longer value (the database is
\* PostgreSQL: views.py searches with django.contrib.postgres)
InsertError(table, row) ==
    IF Len(row.short_name) > MaxShortName THEN "DataError"
    ELSE IF Lookup(table, row.short_name) # {} THEN "IntegrityError"
    ELSE "ok"

\* the name cut with rpartition at WITH
complete_cs_locals_rwith(name) ==
    LET p1 == partition(replace(name, <<"_">>, <<" ">>), <<" ">>)
        p2 == rpartition(p1[3], <<"W","I","T","H">>)
        p3 == rpartition(p2[3], <<" ">>)
    IN  [prt |-> p1[1], kex |-> p2[1], enc |-> p3[1], hsh |-> p3[3]]

\* lines 252-254: the name cut into prt, kex, enc, hsh (not yet stripped)
complete_cs_locals(name) ==
    LET p1 == partition(replace(name, <<"_">>, <<" ">>), <<" ">>)
        p2 == partition(p1[3], <<"W","I","T","H">>)
        p3 == rpartition(p2[3], <<" ">>)
    IN  [prt |-> p1[1], kex |-> p2[1], enc |-> p3[1], hsh |-> p3[3]]

\* the short_name the k-th get_or_create is called with
Token(loc, k) == strip(loc[Locals[k]])

\* where save() goes after the k-th get_or_create returned
AfterGetOrCreate(k) ==
    IF k < Len(TechTables) THEN [at |-> "get", k |-> k + 1, exc |-> "none"]
    ELSE [at |-> "update", k |-> 0, exc |-> "none"]

Idle == [at |-> "idle", k |-> 0, exc |-> "none"]

\* the instance a client hands to save(): the name, and foreign keys that are
\* unset (a new object) or those of a row read earlier
NewInstance(name, fks) ==
    [name |-> name,
     protocol_version |-> fks[1], kex_algorithm |-> fks[2],
     enc_algorithm |-> fks[3], hash_algorithm |-> fks[4]]

StaleKeys ==
    {<<None, None, None, None>>} \cup
    {<<r.protocol_version, r.kex_algorithm, r.enc_algorithm, r.hash_algorithm>> :
        r \in BagToSet(cipher_suites)}

\* a worker that is saving nothing holds no instance and no locals
NoInstance == NewInstance(<<>>, <<None, None, None, None>>)
NoLocals == [prt |-> <<>>, kex |-> <<>>, enc |-> <<>>, hsh |-> <<>>]

\* the handler without its last assignment
AssignFieldButLast(inst, k, key) ==
    IF k = Len(Fields) THEN inst ELSE [inst EXCEPT ![Fields[k]] = key]

\* the handler assigns the object get_or_create returned to the k-th field
AssignField(inst, k, key) == [inst EXCEPT ![Fields[k]] = key]

\* save() is called: pre_save fires and complete_cs_instance cuts the name
Begin(p, name, fks) ==
    /\ pc[p].at = "idle"
    /\ name \in submit[p]
    /\ fks \in StaleKeys
    /\ instance' = [instance EXCEPT ![p] = NewInstance(name, fks)]
    /\ local' = [local EXCEPT ![p] = complete_cs_locals(name)]
    /\ pc' = [pc EXCEPT ![p] = [at |-> "get", k |-> 1, exc |-> "none"]]
    /\ again' = [again EXCEPT ![p] = name \in ran]
    /\ UNCHANGED <<registry, cipher_suites, ran, submit, edits, rfcvars>>

\* the names a run has returned for, once worker p has moved to state nxt
RanAfter(p, nxt) ==
    IF nxt.at = "update" THEN ran \cup {instance[p].name} ELSE ran

\* get_or_create, the lookup: self.get(short_name=...)
Get(p) ==
    /\ pc[p].at = "get"
    /\ LET k == pc[p].k
           key == Token(local[p], k)
       IN  IF Lookup(registry[TechTables[k]], key) # {}
           THEN /\ instance' = [instance EXCEPT ![p] = AssignField(@, k, key)]
                /\ pc' = [pc EXCEPT ![p] = AfterGetOrCreate(k)]
                /\ ran' = RanAfter(p, AfterGetOrCreate(k))
           ELSE /\ pc' = [pc EXCEPT ![p] = [at |-> "create", k |-> k, exc |-> "none"]]
                /\ UNCHANGED <<instance, ran>>
    /\ UNCHANGED <<registry, cipher_suites, again, local, submit, edits, rfcvars>>

\* get_or_create after DoesNotExist: self.create(short_name=...), and on
\* IntegrityError the lookup again
Create(p) ==
    /\ pc[p].at = "create"
    /\ LET k == pc[p].k
           t == TechTables[k]
           key == Token(local[p], k)
           err == InsertError(registry[t], Technology(key))
       IN  IF err = "DataError"
           THEN /\ pc' = [pc EXCEPT ![p] = [at |-> "raised", k |-> k, exc |-> err]]
                /\ UNCHANGED <<registry, instance, ran>>
           ELSE /\ registry' =
                     IF err = "ok"
                     THEN [registry EXCEPT ![t] = @ (+) SetToBag({Technology(key)})]
                     ELSE registry
                /\ instance' = [instance EXCEPT ![p] = AssignField(@, k, key)]
                /\ pc' = [pc EXCEPT ![p] = AfterGetOrCreate(k)]
                /\ ran' = RanAfter(p, AfterGetOrCreate(k))
    /\ UNCHANGED <<cipher_suites, again, local, submit, edits, rfcvars>>

\* Model.save with the primary key set: UPDATE the row of that name
Update(p) ==
    /\ pc[p].at = "update"
    /\ LET old == {r \in BagToSet(cipher_suites) : r.name = instance[p].name}
       IN  IF old # {}
           THEN /\ cipher_suites' =
                     SetToBag({r \in BagToSet(cipher_suites) : r \notin old})
                         (+) SetToBag({instance[p]})
                /\ pc' = [pc EXCEPT ![p] = [at |-> "saved", k |-> 0, exc |-> "none"]]
           ELSE /\ pc' = [pc EXCEPT ![p] = [at |-> "insert", k |-> 0, exc |-> "none"]]
                /\ UNCHANGED cipher_suites
    /\ UNCHANGED <<registry, again, instance, local, ran, submit, edits, rfcvars>>

\* ... and INSERT when the UPDATE matched no row; the primary key is unique
Insert(p) ==
    /\ pc[p].at = "insert"
    /\ IF \E r \in BagToSet(cipher_suites) : r.name = instance[p].name
       THEN /\ pc' = [pc EXCEPT ![p] = [at |-> "raised", k |-> 0, exc |-> "IntegrityError"]]
            /\ UNCHANGED cipher_suites
       ELSE /\ cipher_suites' = cipher_suites (+) SetToBag({instance[p]})
            /\ pc' = [pc EXCEPT ![p] = [at |-> "saved", k |-> 0, exc |-> "none"]]
    /\ UNCHANGED <<registry, again, instance, local, ran, submit, edits, rfcvars>>

\* save() returns, or its exception reaches the caller
Return(p) ==
    /\ pc[p].at \in {"saved", "raised"}
    /\ pc' = [pc EXCEPT ![p] = Idle]
    /\ instance' = [instance EXCEPT ![p] = NoInstance]
    /\ local' = [local EXCEPT ![p] = NoLocals]
    /\ again' = [again EXCEPT ![p] = FALSE]
    /\ UNCHANGED <<registry, cipher_suites, ran, submit, edits, rfcvars>>

\* what an administrator sets on a Technology row
AdminLongNames == {<<"T","r","a","n","s","p","o","r","t"," ","L","a","y","e","r"," ","S","e","c","u","r","i","t","y">>}
Vulnerabilities == {"POODLE"}

\* the administrator edits long_name and vulnerabilities of a Technology row
AdminEdit(t, row, long_name, vulnerabilities) ==
    /\ edits < MaxEdits
    /\ row \in BagToSet(registry[t])
    /\ registry' = [registry EXCEPT ![t] =
           (@ (-) SetToBag({row})) (+)
           SetToBag({[row EXCEPT !.long_name = long_name,
                                 !.vulnerabilities = vulnerabilities]})]
    /\ edits' = edits + 1
    /\ UNCHANGED <<cipher_suites, pc, again, instance, local, ran, submit, rfcvars>>

-----------------------------------------------------------------------------
(* models.py: Rfc and complete_rfc_instance *)

\* Rfc.STATUS_CHOICES
STATUS_CHOICES == <<
    <<<<"I","S","T">>, "Internet Standard">>,
    <<<<"P","S","T">>, "Proposed Standard">>,
    <<<<"D","S","T">>, "Draft Standard">>,
    <<<<"B","C","P">>, "Best Current Practise">>,
    <<<<"I","N","F">>, "Informational">>,
    <<<<"E","X","P">>, "Experimental">>,
    <<<<"H","S","T">>, "Historic">>,
    <<<<"U","N","D">>, "Undefined">> >>

\* views.py, detail_rfc: the labels it looks rfc.status up in
all_rfc_status_codes ==
    [code \in {<<"B","C","P">>, <<"D","S","T">>, <<"E","X","P">>, <<"H","S","T">>, <<"I","N","F">>, <<"I","S","T">>, <<"P","S","T">>, <<"U","N","D">>} |->
        CASE code = <<"B","C","P">> -> "Best Current Practise"
          [] code = <<"D","S","T">> -> "Draft Standard"
          [] code = <<"E","X","P">> -> "Experimental"
          [] code = <<"H","S","T">> -> "Historic"
          [] code = <<"I","N","F">> -> "Informational"
          [] code = <<"I","S","T">> -> "Internet Standard"
          [] code = <<"P","S","T">> -> "Proposed Standard"
          [] code = <<"U","N","D">> -> "Undefined"]

Digits == <<"0", "1", "2", "3", "4", "5", "6", "7", "8", "9">>

IsDigit(c) == \E d \in 1..Len(Digits) : Digits[d] = c

DigitValue(c) == (CHOOSE d \in 1..Len(Digits) : Digits[d] = c) - 1

\* \w of the re module, for the characters of the model
IsWordChar(c) ==
    \/ IsDigit(c)
    \/ c = "_"
    \/ c \in {"A", "B", "C", "D", "E", "F", "G", "H", "I", "J", "K", "L", "M",
              "N", "O", "P", "Q", "R", "S", "T", "U", "V", "W", "X", "Y", "Z"}
    \/ c \in {"a", "b", "c", "d", "e", "f", "g", "h", "i", "j", "k", "l", "m",
              "n", "o", "p", "q", "r", "s", "t", "u", "v", "w", "x", "y", "z"}

\* str(number) of "{}".format(number)
RECURSIVE str(_)
str(n) ==
    IF n < 0 THEN <<"-">> \o str(0 - n)
    ELSE IF n < 10 THEN <<Digits[n + 1]>>
    ELSE str(n \div 10) \o <<Digits[(n % 10) + 1]>>

\* int() of a str of digits
RECURSIVE int(_)
int(s) ==
    IF s = <<>> THEN 0
    ELSE 10 * int(SubSeq(s, 1, Len(s) - 1)) + DigitValue(s[Len(s)])

\* sep.join(parts)
RECURSIVE join(_, _)
join(sep, parts) ==
    IF parts = <<>> THEN <<>>
    ELSE IF Len(parts) = 1 THEN parts[1]
    ELSE parts[1] \o sep \o join(sep, Tail(parts))

\* get_year: month_list
month_list == <<<<"J","a","n","u","a","r","y">>, <<"F","e","b","r","u","a","r","y">>, <<"M","a","r","c","h">>, <<"A","p","r","i","l">>, <<"M","a","y">>, <<"J","u","n","e">>,
    <<"J","u","l","y">>, <<"A","u","g","u","s","t">>, <<"S","e","p","t","e","m","b","e","r">>, <<"O","c","t","o","b","e","r">>, <<"N","o","v","e","m","b","e","r">>, <<"D","e","c","e","m","b","e","r">>>>

\* \b(?:January|...|December)\b (\d{4}) matches docinfo at i
month_and_year_match(docinfo, i) ==
    /\ i = 1 \/ ~IsWordChar(docinfo[i - 1])
    /\ \E m \in 1..Len(month_list) :
          LET after == i + Len(month_list[m])
          IN  /\ startswith(docinfo, month_list[m], i)
              /\ after + 4 <= Len(docinfo)
              /\ ~IsWordChar(docinfo[after])
              /\ docinfo[after] = " "
              /\ \A d \in 1..4 : IsDigit(docinfo[after + d])

\* the group (\d{4}) of the match at i
month_and_year_group(docinfo, i) ==
    LET m == CHOOSE m \in 1..Len(month_list) :
                 /\ startswith(docinfo, month_list[m], i)
                 /\ startswith(docinfo, <<" ">>, i + Len(month_list[m]))
        after == i + Len(month_list[m])
    IN  SubSeq(docinfo, after + 1, after + 4)

\* month_and_year.search(docinfo): the place of the leftmost match at or after
\* i, 0 for None
RECURSIVE month_and_year_search(_, _)
month_and_year_search(docinfo, i) ==
    IF i > Len(docinfo) THEN 0
    ELSE IF month_and_year_match(docinfo, i) THEN i
    ELSE month_and_year_search(docinfo, i + 1)

\* release_year of an instance it was never set on (None): no page gives it
NoYear == -1

\* get_year with a year for a page that has none
get_year_or_default(resp) ==
    LET docinfo == join(<<" ">>, resp.pre)
        match == month_and_year_search(docinfo, 1)
    IN  IF match = 0 THEN [exc |-> "none", value |-> 0]
        ELSE [exc |-> "none", value |-> int(month_and_year_group(docinfo, match))]

\* get_year: the year of the first match in the text of //pre[1]; on no
\* match, match.group raises AttributeError
get_year(resp) ==
    LET docinfo == join(<<" ">>, resp.pre)
        match == month_and_year_search(docinfo, 1)
    IN  IF match = 0 THEN [exc |-> "AttributeError", value |-> NoYear]
        ELSE [exc |-> "none", value |-> int(month_and_year_group(docinfo, match))]

\* get_title: the text nodes of span.h1, joined
get_title(resp) == join(<<" ">>, resp.h1)

\* get_status looking for DRAFT STANDARD first
get_status_draft_first(resp) ==
    LET docinfo == join(<<" ">>, resp.docinfo)
    IN  IF search(<<"D","R","A","F","T"," ","S","T","A","N","D","A","R","D">>, docinfo) THEN <<"D","S","T">>
        ELSE IF search(<<"I","N","T","E","R","N","E","T"," ","S","T","A","N","D","A","R","D">>, docinfo) THEN <<"I","S","T">>
        ELSE IF search(<<"P","R","O","P","O","S","E","D"," ","S","T","A","N","D","A","R","D">>, docinfo) THEN <<"P","S","T">>
        ELSE IF search(<<"B","E","S","T"," ","C","U","R","R","E","N","T"," ","P","R","A","C","T","I","S","E">>, docinfo) THEN <<"B","C","P">>
        ELSE IF search(<<"I","N","F","O","R","M","A","T","I","O","N","A","L">>, docinfo) THEN <<"I","N","F">>
        ELSE IF search(<<"E","X","P","E","R","I","M","E","N","T","A","L">>, docinfo) THEN <<"E","X","P">>
        ELSE IF search(<<"H","I","S","T","O","R","I","C">>, docinfo) THEN <<"H","S","T">>
        ELSE <<"U","N","D">>

\* get_status without its else branch
get_status_no_else(resp) ==
    LET docinfo == join(<<" ">>, resp.docinfo)
    IN  IF search(<<"I","N","T","E","R","N","E","T"," ","S","T","A","N","D","A","R","D">>, docinfo) THEN <<"I","S","T">>
        ELSE IF search(<<"P","R","O","P","O","S","E","D"," ","S","T","A","N","D","A","R","D">>, docinfo) THEN <<"P","S","T">>
        ELSE IF search(<<"D","R","A","F","T"," ","S","T","A","N","D","A","R","D">>, docinfo) THEN <<"D","S","T">>
        ELSE IF search(<<"B","E","S","T"," ","C","U","R","R","E","N","T"," ","P","R","A","C","T","I","S","E">>, docinfo) THEN <<"B","C","P">>
        ELSE IF search(<<"I","N","F","O","R","M","A","T","I","O","N","A","L">>, docinfo) THEN <<"I","N","F">>
        ELSE IF search(<<"E","X","P","E","R","I","M","E","N","T","A","L">>, docinfo) THEN <<"E","X","P">>
        ELSE IF search(<<"H","I","S","T","O","R","I","C">>, docinfo) THEN <<"H","S","T">>
        ELSE None

\* get_status: the first of the phrases, in this order, that the joined
\* docinfo spans hold
get_status(resp) ==
    LET docinfo == join(<<" ">>, resp.docinfo)
    IN  IF search(<<"I","N","T","E","R","N","E","T"," ","S","T","A","N","D","A","R","D">>, docinfo) THEN <<"I","S","T">>
        ELSE IF search(<<"P","R","O","P","O","S","E","D"," ","S","T","A","N","D","A","R","D">>, docinfo) THEN <<"P","S","T">>
        ELSE IF search(<<"D","R","A","F","T"," ","S","T","A","N","D","A","R","D">>, docinfo) THEN <<"D","S","T">>
        ELSE IF search(<<"B","E","S","T"," ","C","U","R","R","E","N","T"," ","P","R","A","C","T","I","S","E">>, docinfo) THEN <<"B","C","P">>
        ELSE IF search(<<"I","N","F","O","R","M","A","T","I","O","N","A","L">>, docinfo) THEN <<"I","N","F">>
        ELSE IF search(<<"E","X","P","E","R","I","M","E","N","T","A","L">>, docinfo) THEN <<"E","X","P">>
        ELSE IF search(<<"H","I","S","T","O","R","I","C">>, docinfo) THEN <<"H","S","T">>
        ELSE <<"U","N","D">>

\* line 236: the url of the page
rfc_url(number) == <<"h","t","t","p","s",":","/","/","t","o","o","l","s",".","i","e","t","f",".","o","r","g","/","h","t","m","l","/","r","f","c">> \o str(number)

\* status_code of a page that was found
HTTP_OK == 200

RfcIdle == [at |-> "idle", exc |-> "none"]

NoRfcInstance ==
    [number |-> 0, status |-> None, title |-> None, release_year |-> NoYear,
     url |-> None]

\* the instance a client hands to save(): a new object of that number, or
\* the row of that number as read earlier
RfcInstances(number) ==
    {[NoRfcInstance EXCEPT !.number = number]} \cup
    {r \in BagToSet(rfcs) : r.number = number}

\* Rfc.save() is called; a single worker saves Rfcs
RfcBegin(number, inst) ==
    /\ rfc_pc.at = "idle"
    /\ inst \in RfcInstances(number)
    /\ rfc_instance' = inst
    /\ rfcs_before' = rfcs
    /\ rfc_pc' = [at |-> "pre_save", exc |-> "none"]
    /\ UNCHANGED <<rfcs, response, web, csvars>>

\* the instance after lines 240-243, the year still to be read
Fetched(inst, resp) ==
    [inst EXCEPT !.url = rfc_url(inst.number),
                 !.title = get_title(resp),
                 !.status = get_status(resp)]

\* pre_save fires: complete_rfc_instance gets the page and fills the
\* instance, or raises. resp is what requests.get returned: the status code
\* and what the three xpath queries find in the body
complete_rfc_instance(resp) ==
    /\ rfc_pc.at = "pre_save"
    /\ resp \in web
    /\ response' = resp
    /\ IF resp.status_code = HTTP_OK
       THEN IF get_year(resp).exc # "none"
            THEN /\ rfc_instance' = Fetched(rfc_instance, resp)
                 /\ rfc_pc' = [at |-> "raised", exc |-> get_year(resp).exc]
            ELSE /\ rfc_instance' =
                      [Fetched(rfc_instance, resp) EXCEPT
                          !.release_year = get_year(resp).value]
                 /\ rfc_pc' = [at |-> "write", exc |-> "none"]
       ELSE /\ rfc_pc' = [at |-> "raised", exc |-> "Exception"]
            /\ UNCHANGED rfc_instance
    /\ UNCHANGED <<rfcs, rfcs_before, web, csvars>>

\* Model.save writes the row: UPDATE of the row of that number, INSERT when
\* there is none
RfcWrite ==
    /\ rfc_pc.at = "write"
    /\ rfcs' = SetToBag({r \in BagToSet(rfcs) : r.number # rfc_instance.number})
                   (+) SetToBag({rfc_instance})
    /\ rfc_pc' = [at |-> "saved", exc |-> "none"]
    /\ UNCHANGED <<rfc_instance, response, rfcs_before, web, csvars>>

\* save() returns, or its exception reaches the caller
RfcReturn ==
    /\ rfc_pc.at \in {"saved", "raised"}
    /\ rfc_pc' = RfcIdle
    /\ rfc_instance' = NoRfcInstance
    /\ response' = None
    /\ rfcs_before' = rfcs
    /\ UNCHANGED <<rfcs, web, csvars>>

NoRfcs ==
    /\ rfcs = EmptyBag
    /\ rfc_pc = RfcIdle
    /\ rfc_instance = NoRfcInstance
    /\ response = None
    /\ rfcs_before = EmptyBag
    /\ web = {}

-----------------------------------------------------------------------------
(* The names clients submit *)

Names == {
    <<"T","L","S","_","R","S","A","_","W","I","T","H","_","A","E","S","_","S","H","A">>,
    <<"S","S","L","_","N","U","L","L">>,
    <<"T","L","S","_","R","S","A","_","W","I","T","H","_","C","H","A","C","H","A","2","0","_","P","O","L","Y","1","3","0","5","_","O","L","D","_","S","H","A">> }

EmptyDb ==
    /\ registry = [t \in {TechTables[k] : k \in 1..Len(TechTables)} |-> EmptyBag]
    /\ cipher_suites = EmptyBag
    /\ pc = [p \in Procs |-> Idle]
    /\ again = [p \in Procs |-> FALSE]
    /\ instance = [p \in Procs |-> NoInstance]
    /\ local = [p \in Procs |-> NoLocals]
    /\ ran = {}
    /\ edits = 0

Init ==
    /\ EmptyDb
    /\ NoRfcs
    /\ submit = [p \in Procs |-> Names]

Worker(p) ==
    \/ \E name \in submit[p], fks \in StaleKeys : Begin(p, name, fks)
    \/ Get(p)
    \/ Create(p)
    \/ Update(p)
    \/ Insert(p)
    \/ Return(p)

Admin ==
    \E k \in 1..Len(TechTables) :
        \E row \in BagToSet(registry[TechTables[k]]) :
            \E long_name \in AdminLongNames, v \in {Vulnerabilities} :
                AdminEdit(TechTables[k], row, long_name, v)

Next == (\E p \in Procs : Worker(p)) \/ Admin

\* two workers saving the names of Names in any order, any number of times,
\* while an administrator edits the registry
Spec == Init /\ [][Next]_vars

-----------------------------------------------------------------------------
(* One worker saving one name, the name drawn from a larger set *)

\* pieces a generated name is made of
Chunks == {<<"_">>, <<" ">>, <<"W","I","T","H">>, <<"A">>, <<"\t">>}

\* pieces of a generated name
MaxChunks == 4

\* pieces of the K and of the E of a generated name P K WITH E H
MaxTokenChunks == 3

RECURSIVE Concat(_)
Concat(ss) == IF ss = <<>> THEN <<>> ELSE Head(ss) \o Concat(Tail(ss))

ChunkNames(chunks, n) ==
    {Concat(cs) : cs \in UNION {[1..m -> chunks] : m \in 0..n}}

\* the example of the specification
ExampleName == <<"T","L","S","_","E","C","D","H","E","_","R","S","A"," ","W","I","T","H"," ","A","E","S","_","1","2","8","_","G","C","M"," ","S","H","A","2","5","6">>

\* names with a token longer than a short_name
OverlongNames == {
    <<"T","L","S","_","R","S","A","_","W","I","T","H","_","C","H","A","C","H","A","2","0","_","P","O","L","Y","1","3","0","5","_","O","L","D","_","S","H","A">>,
    <<"T","L","S","_","E","C","D","H","E","_","E","C","D","S","A","_","C","H","A","C","H","A","2","0","_","P","O","L","Y","1","3","0","5">>,
    <<"T","L","S","-","E","C","D","H","E","-","E","C","D","S","A","-","C","H","A","C","H","A","2","0">> }

\* a str that strip() leaves as it is, and that is not empty
IsToken(s) ==
    /\ s # <<>>
    /\ Head(s) \notin Whitespace
    /\ s[Len(s)] \notin Whitespace

\* names P_K WITH E H and P K WITH E H
FormedNames ==
    LET first == {<<"A">>, <<"W","I","T","H">>}
        last == {<<"A">>}
        inner == {s \in ChunkNames({<<" ">>, <<"A">>, <<"W","I","T","H">>}, MaxTokenChunks) : IsToken(s)}
    IN  {P \o sep \o K \o <<" ","W","I","T","H"," ">> \o E \o <<" ">> \o H :
            P \in first, sep \in {<<"_">>, <<" ">>}, K \in inner, E \in inner, H \in last}

BroadNames ==
    ChunkNames(Chunks, MaxChunks) \cup FormedNames \cup OverlongNames \cup {ExampleName}

InitSeq ==
    /\ EmptyDb
    /\ NoRfcs
    /\ \E name \in BroadNames :
           submit = [p \in Procs |-> IF p = 1 THEN {name} ELSE {}]

NextSeq == \E p \in Procs : Worker(p)

SpecSeq == InitSeq /\ [][NextSeq]_vars

-----------------------------------------------------------------------------
(* Saves of Rfcs against pages drawn from a set *)

\* the numbers clients save
RfcNumbers == {5246, 7905}

\* text nodes of the docinfo spans of a generated page
StatusChunks == {<<"I","N","T","E","R","N","E","T"," ","S","T","A","N","D","A","R","D">>, <<"P","R","O","P","O","S","E","D"," ","S","T","A","N","D","A","R","D">>, <<"D","R","A","F","T"," ","S","T","A","N","D","A","R","D">>,
    <<"B","E","S","T"," ","C","U","R","R","E","N","T"," ","P","R","A","C","T","I","S","E">>, <<"I","N","F","O","R","M","A","T","I","O","N","A","L">>, <<"E","X","P","E","R","I","M","E","N","T","A","L">>, <<"H","I","S","T","O","R","I","C">>,
    <<"D","R","A","F","T">>, <<"S","T","A","N","D","A","R","D">>}

\* the text nodes of the first pre of a generated page: the date in one
\* node, split over two, after a letter, after such a one, and none
PreSamples == {
    <<<<"R","e","q","u","e","s","t"," ","f","o","r"," ","C","o","m","m","e","n","t","s",":"," ","5","2","4","6">>, <<"A","u","g","u","s","t"," ","2","0","0","8">>>>,
    <<<<"A","u","g","u","s","t">>, <<"2","0","0","8">>>>,
    <<<<"J","M","a","r","c","h"," ","2","0","1","5">>>>,
    <<<<"J","M","a","r","c","h"," ","2","0","1","5">>, <<"C","a","t","e","g","o","r","y",":"," ","I","n","f","o","r","m","a","t","i","o","n","a","l"," "," "," ","M","a","y"," ","2","0","1","5">>>>,
    <<>> }

\* docinfo spans of a generated page
MaxSpans == 2

Lists(S, n) == UNION {[1..m -> S] : m \in 0..n}

\* pages found, generated
BroadResponses ==
    {[status_code |-> 200, h1 |-> <<<<"T","h","e"," ","T","L","S"," ","P","r","o","t","o","c","o","l">>, <<"V","e","r","s","i","o","n"," ","1",".","2">>>>,
      docinfo |-> d, pre |-> p] :
        d \in Lists(StatusChunks, MaxSpans), p \in PreSamples}

\* what the site gives at any time: a page found, and no page
BaseResponses == {
    [status_code |-> 200, h1 |-> <<<<"C","h","a","C","h","a","2","0","-","P","o","l","y","1","3","0","5"," ","C","i","p","h","e","r"," ","S","u","i","t","e","s">>>>,
     docinfo |-> <<<<"P","R","O","P","O","S","E","D"," ","S","T","A","N","D","A","R","D">>>>, pre |-> <<<<"J","u","n","e"," ","2","0","1","6">>>>],
    [status_code |-> 404, h1 |-> <<>>, docinfo |-> <<>>, pre |-> <<>>] }

InitRfc ==
    /\ EmptyDb
    /\ submit = [p \in Procs |-> {}]
    /\ rfcs = EmptyBag
    /\ rfc_pc = RfcIdle
    /\ rfc_instance = NoRfcInstance
    /\ response = None
    /\ rfcs_before = EmptyBag
    /\ \E resp \in BroadResponses : web = BaseResponses \cup {resp}

NextRfc ==
    \/ \E number \in RfcNumbers :
           \E inst \in RfcInstances(number) : RfcBegin(number, inst)
    \/ \E resp \in web : complete_rfc_instance(resp)
    \/ RfcWrite
    \/ RfcReturn

SpecRfc == InitRfc /\ [][NextRfc]_vars

-----------------------------------------------------------------------------
(* What the claims are stated with *)

Min(S) == CHOOSE x \in S : \A y \in S : x <= y
Max(S) == CHOOSE x \in S : \A y \in S : x >= y

\* the characters a..b of s, none when b < a
Slice(s, a, b) == [i \in 1..(b - a + 1) |-> s[a + i - 1]]

\* the places at or after from where sub stands in s
Occurrences(s, sub, from) ==
    {i \in from..(Len(s) - Len(sub) + 1) :
        \A j \in 1..Len(sub) : s[i + j - 1] = sub[j]}

\* s without the whitespace around it
Trimmed(s) ==
    LET keep == {i \in 1..Len(s) : s[i] \notin Whitespace}
    IN  IF keep = {} THEN <<>> ELSE Slice(s, Min(keep), Max(keep))

\* the name with every underscore replaced by a space
Normalized(name) ==
    [i \in 1..Len(name) |-> IF name[i] = "_" THEN " " ELSE name[i]]

\* the four tokens of the positional algorithm: protocol before the first
\* space, key exchange from there to the first WITH, encryption from after
\* that WITH to the last space, hash after the last space
PositionalTokens(name) ==
    LET n == Normalized(name)
        spaces == Occurrences(n, <<" ">>, 1)
        pEnd == IF spaces = {} THEN Len(n) ELSE Min(spaces) - 1
        withs == Occurrences(n, <<"W","I","T","H">>, pEnd + 2)
        kEnd == IF withs = {} THEN Len(n) ELSE Min(withs) - 1
        later == {i \in spaces : i >= kEnd + 5}
        eEnd == IF later = {} THEN kEnd + 4 ELSE Max(later) - 1
        hFrom == IF later = {} THEN kEnd + 5 ELSE Max(later) + 1
    IN  <<Trimmed(Slice(n, 1, pEnd)),
          Trimmed(Slice(n, pEnd + 2, kEnd)),
          Trimmed(Slice(n, kEnd + 5, eEnd)),
          Trimmed(Slice(n, hFrom, Len(n)))>>

\* the four short_names worker p's handler works with
Tokens(p) == <<Token(local[p], 1), Token(local[p], 2),
               Token(local[p], 3), Token(local[p], 4)>>

\* worker p's handler has cut the name
Cut(p) == pc[p].at # "idle"

\* worker p's handler has returned
Completed(p) == pc[p].at \in {"update", "insert", "saved"}

\* worker p's handler has raised
Raised(p) == pc[p].at = "raised" /\ pc[p].k > 0

ContainsWith(name) == Occurrences(name, <<"W","I","T","H">>, 1) # {}

\* each table holds at most one row per short_name
OneRowPerShortName ==
    \A k \in 1..Len(TechTables) :
        LET table == registry[TechTables[k]]
        IN  \A r1, r2 \in BagToSet(table) :
                /\ CopiesIn(r1, table) = 1
                /\ r1.short_name = r2.short_name => r1 = r2

\* the tokens of the names of Names, computed once
TokensOfNames ==
    [n \in Names |-> [k \in 1..Len(TechTables) |-> Token(complete_cs_locals(n), k)]]

\* the tokens complete_cs_instance derives from a name
NameTokens(name) ==
    IF name \in Names THEN TokensOfNames[name]
    ELSE [k \in 1..Len(TechTables) |-> Token(complete_cs_locals(name), k)]

\* C1: every persisted CipherSuite row references, in each of its four
\* fields, the entry whose short_name is the token complete_cs_instance
\* derives from the row's name, and that entry is in its table.
C1_ReferencesMatchName ==
    \A r \in BagToSet(cipher_suites) :
        \A k \in 1..Len(TechTables) :
            LET key == NameTokens(r.name)[k]
            IN  /\ r[Fields[k]] = key
                /\ Cardinality(Lookup(registry[TechTables[k]], key)) = 1

\* C1 witness: a row was written over by a later save of its name, beside
\* another row
C1_Witness ==
    /\ Cardinality(BagToSet(cipher_suites)) = 2
    /\ \E p \in Procs :
          /\ pc[p].at = "saved"
          /\ again[p]

\* C2: the tokens the handler works with are those of the positional
\* algorithm, for every name; the example name gives TLS, ECDHE RSA,
\* AES 128 GCM, SHA256.
C2_PositionalTokens ==
    \A p \in Procs :
        Cut(p) =>
            /\ Tokens(p) = PositionalTokens(instance[p].name)
            /\ instance[p].name = ExampleName =>
                   Tokens(p) = <<<<"T","L","S">>, <<"E","C","D","H","E"," ","R","S","A">>, <<"A","E","S"," ","1","2","8"," ","G","C","M">>, <<"S","H","A","2","5","6">>>>

\* C2 witness: the example name has been cut and saved
C2_Witness ==
    /\ pc[1].at = "saved"
    /\ instance[1].name = ExampleName
    /\ Tokens(1) = <<<<"T","L","S">>, <<"E","C","D","H","E"," ","R","S","A">>, <<"A","E","S"," ","1","2","8"," ","G","C","M">>, <<"S","H","A","2","5","6">>>>

Readings(n) ==
    {abc \in Occurrences(n, <<" ">>, 1) \X Occurrences(n, <<" ","W","I","T","H"," ">>, 1)
                 \X Occurrences(n, <<" ">>, 1) :
        LET a == abc[1]
            b == abc[2]
            c == abc[3]
        IN  /\ a < b /\ b + 5 < c /\ c < Len(n)
            /\ n[a] = " "
            /\ Slice(n, b, b + 5) = <<" ","W","I","T","H"," ">>
            /\ n[c] = " "
            /\ IsToken(Slice(n, 1, a - 1))
            /\ Occurrences(Slice(n, 1, a - 1), <<" ">>, 1) = {}
            /\ IsToken(Slice(n, a + 1, b - 1))
            /\ IsToken(Slice(n, b + 6, c - 1))
            /\ IsToken(Slice(n, c + 1, Len(n)))
            /\ Occurrences(Slice(n, c + 1, Len(n)), <<" ">>, 1) = {}}

\* the key-exchange part of a reading
ReadK(n, abc) == Slice(n, abc[1] + 1, abc[2] - 1)

\* a normalized name of the form P K WITH E H
WellFormed(n) == Readings(n) # {}

\* ... with a reading whose K holds no WITH
WellFormedPlainK(n) == \E abc \in Readings(n) : ~ContainsWith(ReadK(n, abc))

Reassembled(t) == t[1] \o <<" ">> \o t[2] \o <<" ","W","I","T","H"," ">> \o t[3] \o <<" ">> \o t[4]

\* C6 as stated: the tokens of a name whose normalized form is well formed,
\* put together again, are the normalized name.
C6_Original ==
    \A p \in Procs :
        (Cut(p) /\ WellFormed(Normalized(instance[p].name))) =>
            Reassembled(Tokens(p)) = Normalized(instance[p].name)

\* C6 amended: the tokens of a name whose normalized form is well formed
\* with a K that does not contain WITH (P, K, E and H not empty and without
\* whitespace at their ends, P and H without spaces), put together again, are
\* the normalized name.
C6_RoundTrip ==
    \A p \in Procs :
        (Cut(p) /\ WellFormedPlainK(Normalized(instance[p].name))) =>
            Reassembled(Tokens(p)) = Normalized(instance[p].name)

\* C6 witness: a name written with an underscore, with spaces inside K and
\* E, has been cut and its tokens give back the normalized name
C6_Witness ==
    \E p \in Procs :
        /\ Cut(p)
        /\ instance[p].name # Normalized(instance[p].name)
        /\ WellFormedPlainK(Normalized(instance[p].name))
        /\ Occurrences(Tokens(p)[2], <<" ">>, 1) # {}
        /\ Occurrences(Tokens(p)[3], <<" ">>, 1) # {}
        /\ Reassembled(Tokens(p)) = Normalized(instance[p].name)

\* C7: a run of the handler for a name it has returned for before leaves the
\* four tables as they are, long_name and vulnerabilities included, and no table
\* ever holds two rows of one short_name.
C7_Idempotent ==
    /\ [][\A p \in Procs :
            (/\ pc[p].at \in {"get", "create"}
             /\ pc'[p] # pc[p]
             /\ instance[p].name \in ran) => registry' = registry]_vars
    /\ []OneRowPerShortName

\* C7 witness: a second run for a name has returned, on a registry an
\* administrator has edited
C7_Witness ==
    \E p \in Procs :
        /\ Completed(p)
        /\ again[p]
        /\ \E r \in BagToSet(registry["ProtocolVersion"]) :
              /\ r.short_name = instance[p].protocol_version
              /\ r.long_name # <<>>

\* C8 as stated: no save raises, and a handler that has returned has assigned
\* four entries.
C8_NeverRejects ==
    \A p \in Procs :
        /\ pc[p].at # "raised"
        /\ Completed(p) =>
               \A k \in 1..Len(TechTables) :
                   Lookup(registry[TechTables[k]], instance[p][Fields[k]]) # {}

\* two names share a token
ShareToken(n1, n2) ==
    \E k \in 1..Len(TechTables) :
        NameTokens(n1)[k] = NameTokens(n2)[k]

\* C9 as stated: when two saves of names that share a token have run side by
\* side, both have completed, no table holds two rows of one short_name, and
\* for each shared token both cipher suites reference the same row.
C9_BothComplete ==
    \A p, q \in Procs :
        (/\ p # q
         /\ pc[p].at \in {"saved", "raised"}
         /\ pc[q].at \in {"saved", "raised"}
         /\ ShareToken(instance[p].name, instance[q].name)) =>
            /\ pc[p].at = "saved"
            /\ pc[q].at = "saved"
            /\ OneRowPerShortName
            /\ \A k \in 1..Len(TechTables) :
                   Tokens(p)[k] = Tokens(q)[k] =>
                       /\ instance[p][Fields[k]] = instance[q][Fields[k]]
                       /\ Cardinality(Lookup(registry[TechTables[k]],
                                             instance[p][Fields[k]])) = 1

\* the places where a month name, a space and four digits stand in text, the
\* month name not following a word character
MonthYearPlaces(text) ==
    UNION {
        {i \in Occurrences(text, month_list[m] \o <<" ">>, 1) :
            LET year == i + Len(month_list[m]) + 1
            IN  /\ year + 3 <= Len(text)
                /\ \A d \in 0..3 : IsDigit(text[year + d])
                /\ i > 1 => ~IsWordChar(text[i - 1])} :
        m \in 1..Len(month_list)}

\* the page was not found, or the text of its first pre holds no month and year
FailedFetch(resp) ==
    \/ resp.status_code # 200
    \/ MonthYearPlaces(join(<<" ">>, resp.pre)) = {}

\* the handler of the save under way has run
RfcHandled == rfc_pc.at \in {"write", "saved", "raised"}

\* C4: a save whose fetch fails, or whose page holds no month and year,
\* raises and leaves the Rfc table as it was when the save began.
C4_FailedSaveWritesNothing ==
    (RfcHandled /\ FailedFetch(response)) =>
        /\ rfc_pc.at = "raised"
        /\ rfcs = rfcs_before

\* C4 witness: the update of an existing row raised on a page without a
\* year, the instance in memory already holding the new title
C4_Witness ==
    /\ rfc_pc = [at |-> "raised", exc |-> "AttributeError"]
    /\ response.status_code = 200
    /\ \E r \in BagToSet(rfcs) :
          /\ r.number = rfc_instance.number
          /\ r.title # rfc_instance.title
          /\ r.release_year = rfc_instance.release_year

\* the status-annotation text of a page
StatusText(resp) == join(<<" ">>, resp.docinfo)

Holds(text, phrase) == Occurrences(text, phrase, 1) # {}

\* the status get_status gave the save under way
StatusGiven == RfcHandled /\ response.status_code = 200

\* C5 as stated: a status text holding DRAFT STANDARD gives DST, whatever
\* other phrases it holds.
C5_Original ==
    (StatusGiven /\ Holds(StatusText(response), <<"D","R","A","F","T"," ","S","T","A","N","D","A","R","D">>)) =>
        rfc_instance.status = <<"D","S","T">>

\* C5 amended: a status text holding DRAFT STANDARD gives IST when it also
\* holds INTERNET STANDARD, else PST when it also holds PROPOSED STANDARD,
\* else DST, whatever it holds of BEST CURRENT PRACTISE, INFORMATIONAL,
\* EXPERIMENTAL and HISTORIC.
C5_DraftAfterInternetAndProposed ==
    (StatusGiven /\ Holds(StatusText(response), <<"D","R","A","F","T"," ","S","T","A","N","D","A","R","D">>)) =>
        rfc_instance.status =
            IF Holds(StatusText(response), <<"I","N","T","E","R","N","E","T"," ","S","T","A","N","D","A","R","D">>) THEN <<"I","S","T">>
            ELSE IF Holds(StatusText(response), <<"P","R","O","P","O","S","E","D"," ","S","T","A","N","D","A","R","D">>) THEN <<"P","S","T">>
            ELSE <<"D","S","T">>

\* C5 witness: DRAFT STANDARD followed by HISTORIC gave DST
C5_Witness ==
    /\ StatusGiven
    /\ response.docinfo = <<<<"D","R","A","F","T"," ","S","T","A","N","D","A","R","D">>, <<"H","I","S","T","O","R","I","C">>>>
    /\ rfc_instance.status = <<"D","S","T">>

\* the phrases get_status looks for
StatusPhrases == {<<"I","N","T","E","R","N","E","T"," ","S","T","A","N","D","A","R","D">>, <<"P","R","O","P","O","S","E","D"," ","S","T","A","N","D","A","R","D">>, <<"D","R","A","F","T"," ","S","T","A","N","D","A","R","D">>,
    <<"B","E","S","T"," ","C","U","R","R","E","N","T"," ","P","R","A","C","T","I","S","E">>, <<"I","N","F","O","R","M","A","T","I","O","N","A","L">>, <<"E","X","P","E","R","I","M","E","N","T","A","L">>, <<"H","I","S","T","O","R","I","C">>}

RECURSIVE Pow10(_)
Pow10(n) == IF n = 0 THEN 1 ELSE 10 * Pow10(n - 1)

\* s is the decimal numeral of n
IsNumeral(s, n) ==
    /\ s # <<>>
    /\ \A i \in 1..Len(s) : IsDigit(s[i])
    /\ Len(s) > 1 => s[1] # "0"
    /\ \A i \in 1..Len(s) :
          DigitValue(s[i]) = (n \div Pow10(Len(s) - i)) % 10
    /\ n < Pow10(Len(s))

\* C10: every persisted Rfc row has one of the eight status codes detail_rfc
\* has a label for, and the url of its number; the status a save writes is
\* UND exactly when the status text holds none of the seven phrases.
C10_StatusAndUrl ==
    /\ \A r \in BagToSet(rfcs) :
          LET base == <<"h","t","t","p","s",":","/","/","t","o","o","l","s",".","i","e","t","f",".","o","r","g","/","h","t","m","l","/","r","f","c">>
          IN  /\ r.status \in DOMAIN all_rfc_status_codes
              /\ r.status \in {STATUS_CHOICES[i][1] : i \in 1..Len(STATUS_CHOICES)}
              /\ Slice(r.url, 1, Len(base)) = base
              /\ IsNumeral(Slice(r.url, Len(base) + 1, Len(r.url)), r.number)
    /\ rfc_pc.at \in {"write", "saved"} =>
          (rfc_instance.status = <<"U","N","D">> <=>
              \A ph \in StatusPhrases : ~Holds(StatusText(response), ph))

\* C10 witness: a row with status UND beside a row with another status, the
\* first just written
C10_Witness ==
    /\ rfc_pc.at = "saved"
    /\ rfc_instance.status = <<"U","N","D">>
    /\ rfc_instance \in BagToSet(rfcs)
    /\ \E r \in BagToSet(rfcs) : r.status # <<"U","N","D">>

====
